---- MODULE Spec2Model ----
(***************************************************************************)
(* xpctl: a terminal browser for the connections of a local XPipe daemon.  *)
(* The model follows src/src/main.rs: main, App::run, App::handshake,      *)
(* App::fetch_connections, App::draw, App::handle_events, App::fzf_search  *)
(* and App::open_terminal_session.                                         *)
(*                                                                         *)
(* Strings that the program only copies (identifiers, tokens, response     *)
(* bodies) are TLA+ strings.  Display names and the matcher's output are   *)
(* sequences of byte values, because the program sorts, deduplicates and   *)
(* trims them.  Terminal I/O (terminal.draw, event::read) is taken to      *)
(* succeed; HTTP calls and the matcher process may fail.                   *)
(***************************************************************************)
EXTENDS Integers, Sequences, FiniteSets, TLC

\* Largest number of entries in one query or info response.
MaxConn == 3

VARIABLES
    pc,                 \* position of the single thread of control
    env_key,            \* XPIPE_API_KEY is set in the process environment
    dotenv_key,         \* the .env file defines XPIPE_API_KEY
    ui_init,            \* ratatui::init() has run and ratatui::restore() has not
    frame,              \* the last frame drawn by terminal.draw
    servers,            \* App.servers
    resources,          \* App.resources
    selected_index,     \* App.selected_index
    viewing_resources,  \* App.viewing_resources
    current_server,     \* App.current_server
    exit,               \* App.exit
    session_token,      \* App.session_token
    connection_ids,     \* fetch_connections: response.found
    infos,              \* fetch_connections: info_response.infos
    folded,             \* fetch_connections: pairs of the zip already consumed
    key,                \* handle_events: the event being handled
    fzf,                \* fzf_search: the matcher process and its output
    launch,             \* open_terminal_session: the request awaiting its key press
    printed             \* lines written by println!/eprintln! since the last draw

vars == <<pc, env_key, dotenv_key, ui_init, frame, servers, resources,
          selected_index, viewing_resources, current_server, exit,
          session_token, connection_ids, infos, folded, key, fzf, launch,
          printed>>

app == <<servers, resources, selected_index, viewing_resources,
         current_server, exit, session_token>>

-----------------------------------------------------------------------------
(* Values *)

\* Option<String>::None for session_token.
NoToken == "None"

Tokens == {"tok"}

\* Display names as byte strings: "a", "a " and "b".  Names are not empty
\* and do not consist of whitespace only.
NameSet == {<<97>>, <<97, 32>>, <<98>>}

\* ConnectionInfo.name: a list of names, of which the first is displayed.
InfoSet == {<<>>} \cup {<<n>> : n \in NameSet} \cup {<<<<98>>, <<97>>>>}

\* Identifiers returned by the query step.
IdSet == {"a1", "a2"}

SeqsUpTo(S, n) == UNION {[1..m -> S] : m \in 0..n}

Min(a, b) == IF a < b THEN a ELSE b

Range(s) == {s[i] : i \in 1..Len(s)}

\* char::is_whitespace on the bytes used here: tab, newline, CR, space.
Whitespace == {9, 10, 13, 32}

-----------------------------------------------------------------------------
(* Pure functions *)

\* Ord for String: lexicographic comparison of the bytes.
RECURSIVE StrLess(_, _)
StrLess(a, b) ==
    IF b = <<>> THEN FALSE
    ELSE IF a = <<>> THEN TRUE
    ELSE IF a[1] # b[1] THEN a[1] < b[1]
    ELSE StrLess(Tail(a), Tail(b))

\* Insert x into the sorted sequence s, after the elements not greater.
RECURSIVE SortedInsert(_, _)
SortedInsert(x, s) ==
    IF s = <<>> THEN <<x>>
    ELSE IF StrLess(x, s[1]) THEN <<x>> \o s
    ELSE <<s[1]>> \o SortedInsert(x, Tail(s))

\* Vec<String>::sort.
RECURSIVE Sort(_)
Sort(s) ==
    IF s = <<>> THEN <<>>
    ELSE SortedInsert(s[Len(s)], Sort(SubSeq(s, 1, Len(s) - 1)))

DedupKeepAll(s) == s

\* Vec<String>::dedup: removes consecutive repeated elements.
RECURSIVE Dedup(_)
Dedup(s) ==
    IF Len(s) < 2 THEN s
    ELSE IF s[1] = s[2] THEN Dedup(Tail(s))
    ELSE <<s[1]>> \o Dedup(Tail(s))

RECURSIVE TrimStart(_)
TrimStart(s) ==
    IF s # <<>> /\ s[1] \in Whitespace THEN TrimStart(Tail(s)) ELSE s

RECURSIVE TrimEnd(_)
TrimEnd(s) ==
    IF s # <<>> /\ s[Len(s)] \in Whitespace
    THEN TrimEnd(SubSeq(s, 1, Len(s) - 1))
    ELSE s

\* str::trim.
Trim(s) == TrimEnd(TrimStart(s))

\* String::from_utf8 succeeds; the bytes used here are ASCII or 255.
Utf8Valid(bytes) == \A i \in 1..Len(bytes) : bytes[i] < 128

ResourcesInsert(res, name, id) ==
    [n \in DOMAIN res \cup {name} |-> IF n = name THEN <<id>> ELSE res[n]]

\* self.resources.entry(name).or_default().push(id)
ResourcesPush(res, name, id) ==
    [n \in DOMAIN res \cup {name} |->
        IF n = name
        THEN (IF name \in DOMAIN res THEN res[name] ELSE <<>>) \o <<id>>
        ELSE res[n]]

MoveDownNoClamp(i, n) == i + 1

\* Down / 'j': the new selected_index for a list of n servers.
MoveDown(i, n) == IF i + 1 < n THEN i + 1 ELSE i

MoveUpStay(i) == i

\* Up / 'k': the new selected_index.
MoveUp(i) == IF i > 0 THEN i - 1 ELSE i

draw_skip_first(srv, sel) ==
    [drawn |-> TRUE,
     items |-> [i \in 1..(Len(srv) - 1) |->
                   [text |-> srv[i + 1], highlighted |-> (i = sel)]]]

\* The list items App::draw builds: one per server, the selected one highlighted.
draw(srv, sel) ==
    [drawn |-> TRUE,
     items |-> [i \in 1..Len(srv) |->
                   [text |-> srv[i], highlighted |-> (i - 1 = sel)]]]

NoFrame == [drawn |-> FALSE, items |-> <<>>]

-----------------------------------------------------------------------------
(* Startup: main, App::run, App::handshake *)

NoFzf == [child |-> "none", status |-> "none", stdout |-> <<>>]

NoLaunch == [connection |-> "", directory |-> "", kind |-> "none",
             body |-> "", err |-> ""]

Init ==
    /\ pc = "main"
    /\ env_key \in BOOLEAN
    /\ dotenv_key \in BOOLEAN
    /\ ui_init = FALSE
    /\ frame = NoFrame
    /\ servers = <<>>
    /\ resources = <<>>
    /\ selected_index = 0
    /\ viewing_resources = FALSE
    /\ current_server = ""
    /\ exit = FALSE
    /\ session_token = NoToken
    /\ connection_ids = <<>>
    /\ infos = <<>>
    /\ folded = 0
    /\ key = "none"
    /\ fzf = NoFzf
    /\ launch = NoLaunch
    /\ printed = <<>>

\* main: dotenvy::dotenv().ok(); ratatui::init(); App::default().run(..)
main ==
    /\ pc = "main"
    /\ env_key' = (env_key \/ dotenv_key)
    /\ ui_init' = TRUE
    /\ pc' = "handshake"
    /\ UNCHANGED <<dotenv_key, frame, app, connection_ids, infos, folded,
                   key, fzf, launch, printed>>

\* handshake: std::env::var("XPIPE_API_KEY").expect(..) panics without the key.
handshake_panic ==
    /\ pc = "handshake"
    /\ ~env_key
    /\ pc' = "panic"
    /\ printed' = <<<<"panic", "XPIPE_API_KEY environment variable not set">>>>
    /\ UNCHANGED <<env_key, dotenv_key, ui_init, frame, app, connection_ids,
                   infos, folded, key, fzf, launch>>

\* handshake returns Ok(token); run stores it and calls fetch_connections.
handshake_ok ==
    /\ pc = "handshake"
    /\ env_key
    /\ \E token \in Tokens : session_token' = token
    /\ pc' = "query"
    /\ UNCHANGED <<env_key, dotenv_key, ui_init, frame, servers, resources,
                   selected_index, viewing_resources, current_server, exit,
                   connection_ids, infos, folded, key, fzf, launch, printed>>

\* handshake returns Err (send or json failed); run reports it and goes on.
handshake_err ==
    /\ pc = "handshake"
    /\ env_key
    /\ pc' = "draw"
    /\ printed' = <<<<"Error during handshake.", "">>>>
    /\ UNCHANGED <<env_key, dotenv_key, ui_init, frame, app, connection_ids,
                   infos, folded, key, fzf, launch>>

-----------------------------------------------------------------------------
(* App::fetch_connections *)

\* fetch_connections: without a token Ok(()) at once; with one,
\* POST /connection/query answers {found: [...]}.
fetch_query ==
    /\ pc = "query"
    /\ IF session_token = NoToken
       THEN /\ pc' = "draw"
            /\ UNCHANGED connection_ids
       ELSE /\ \E found \in SeqsUpTo(IdSet, MaxConn) : connection_ids' = found
            /\ pc' = "info"
    /\ UNCHANGED <<env_key, dotenv_key, ui_init, frame, app, infos, folded,
                   key, fzf, launch, printed>>

\* send()? or json()? of the query step fails; run prints the error.
query_err ==
    /\ pc = "query"
    /\ session_token # NoToken
    /\ \E e \in {"send", "json"} :
          printed' = <<<<"Error fetching connections: ", e>>>>
    /\ pc' = "draw"
    /\ UNCHANGED <<env_key, dotenv_key, ui_init, frame, app, connection_ids,
                   infos, folded, key, fzf, launch>>

info_ok_unfolded ==
    /\ pc = "info"
    /\ \E got \in SeqsUpTo(InfoSet, MaxConn) : infos' = got
    /\ folded' = 0
    /\ pc' = "draw"
    /\ UNCHANGED <<env_key, dotenv_key, ui_init, frame, app, connection_ids,
                   key, fzf, launch, printed>>

\* POST /connection/info answers {infos: [...]}.
info_ok ==
    /\ pc = "info"
    /\ \E got \in SeqsUpTo(InfoSet, MaxConn) : infos' = got
    /\ folded' = 0
    /\ pc' = "fold"
    /\ UNCHANGED <<env_key, dotenv_key, ui_init, frame, app, connection_ids,
                   key, fzf, launch, printed>>

info_err_partial ==
    /\ pc = "info"
    /\ \E e \in {"send", "json"} :
          printed' = <<<<"Error fetching connections: ", e>>>>
    /\ servers' = (IF connection_ids = <<>> THEN servers
                   ELSE Append(servers, <<97>>))
    /\ resources' = (IF connection_ids = <<>> THEN resources
                     ELSE ResourcesPush(resources, <<97>>, connection_ids[1]))
    /\ connection_ids' = <<>>
    /\ pc' = "draw"
    /\ UNCHANGED <<env_key, dotenv_key, ui_init, frame, selected_index,
                   viewing_resources, current_server, exit, session_token,
                   infos, folded, key, fzf, launch>>

\* send()? or json()? of the info step fails; connection_ids is dropped.
info_err ==
    /\ pc = "info"
    /\ \E e \in {"send", "json"} :
          printed' = <<<<"Error fetching connections: ", e>>>>
    /\ connection_ids' = <<>>
    /\ pc' = "draw"
    /\ UNCHANGED <<env_key, dotenv_key, ui_init, frame, app, infos, folded,
                   key, fzf, launch>>

\* One iteration of `for (info, connection_id) in infos.zip(connection_ids)`.
fold_step ==
    /\ pc = "fold"
    /\ folded < Min(Len(infos), Len(connection_ids))
    /\ LET info == infos[folded + 1]
           connection_id == connection_ids[folded + 1]
       IN  IF info # <<>>
           THEN /\ servers' = Append(servers, info[1])
                /\ resources' = ResourcesPush(resources, info[1], connection_id)
           ELSE UNCHANGED <<servers, resources>>
    /\ folded' = folded + 1
    /\ UNCHANGED <<pc, env_key, dotenv_key, ui_init, frame, selected_index,
                   viewing_resources, current_server, exit, session_token,
                   connection_ids, infos, key, fzf, launch, printed>>

\* The zip is exhausted: servers.sort(); servers.dedup(); Ok(()).
fetch_finish ==
    /\ pc = "fold"
    /\ folded >= Min(Len(infos), Len(connection_ids))
    /\ servers' = Dedup(Sort(servers))
    /\ connection_ids' = <<>>
    /\ infos' = <<>>
    /\ folded' = 0
    /\ pc' = "draw"
    /\ UNCHANGED <<env_key, dotenv_key, ui_init, frame, resources,
                   selected_index, viewing_resources, current_server, exit,
                   session_token, key, fzf, launch, printed>>

-----------------------------------------------------------------------------
(* The render loop of App::run *)

run_draw_ignoring_exit ==
    /\ pc = "draw"
    /\ frame' = draw(servers, selected_index)
    /\ key' = "none"
    /\ fzf' = NoFzf
    /\ printed' = <<>>
    /\ pc' = "event"
    /\ UNCHANGED <<env_key, dotenv_key, ui_init, app, connection_ids, infos,
                   folded, launch>>

\* `while !self.exit` with exit unset: terminal.draw(|frame| self.draw(frame)).
run_draw ==
    /\ pc = "draw"
    /\ ~exit
    /\ frame' = draw(servers, selected_index)
    /\ key' = "none"
    /\ fzf' = NoFzf
    /\ printed' = <<>>
    /\ pc' = "event"
    /\ UNCHANGED <<env_key, dotenv_key, ui_init, app, connection_ids, infos,
                   folded, launch>>

\* `while !self.exit` with exit set: run returns Ok(()), main restores.
run_exit ==
    /\ pc = "draw"
    /\ exit
    /\ ui_init' = FALSE
    /\ pc' = "done"
    /\ UNCHANGED <<env_key, dotenv_key, frame, app, connection_ids, infos,
                   folded, key, fzf, launch, printed>>

-----------------------------------------------------------------------------
(* App::open_terminal_session *)

Bodies == {"connection refused", "forbidden"}

\* What POST /connection/terminal can come to: a 2xx status, another status
\* with a body that resp.text() reads or fails to read, or a failed send.
LaunchOutcomes ==
    {[kind |-> "success", body |-> "", err |-> ""]}
    \cup {[kind |-> "status", body |-> b, err |-> ""] : b \in Bodies}
    \cup {[kind |-> "unreadable", body |-> "", err |-> ""]}
    \cup {[kind |-> "transport", body |-> "", err |-> "connection error"]}

ResultLineUnknown(uuid, o) ==
    IF o.kind = "success"
    THEN <<"Terminal session opened successfully for: ", uuid>>
    ELSE IF o.kind = "transport"
    THEN <<"Request failed: ", o.err>>
    ELSE <<"Error opening terminal session:\n", "Unknown error">>

\* The line the match on the send() result prints.
ResultLine(uuid, o) ==
    IF o.kind = "success"
    THEN <<"Terminal session opened successfully for: ", uuid>>
    ELSE IF o.kind = "status"
    THEN <<"Error opening terminal session:\n", o.body>>
    ELSE IF o.kind = "unreadable"
    THEN <<"Error opening terminal session:\n", "Unknown error">>
    ELSE <<"Request failed: ", o.err>>

LaunchRecord(uuid, o) ==
    [connection |-> uuid, directory |-> "/", kind |-> o.kind,
     body |-> o.body, err |-> o.err]

open_terminal_session_no_wait(token, uuid, o) ==
    IF token = NoToken
    THEN [pc |-> "draw", launch |-> NoLaunch, printed |-> <<>>]
    ELSE [pc |-> IF o.kind = "transport" THEN "draw" ELSE "ack",
          launch |-> LaunchRecord(uuid, o),
          printed |-> <<<<"Connecting to ", uuid>>, ResultLine(uuid, o),
                        <<"Press any key to return...", "">>>>]

open_terminal_session_any_token(token, uuid, o) ==
    [pc |-> "ack",
     launch |-> LaunchRecord(uuid, o),
     printed |-> <<<<"Connecting to ", uuid>>, ResultLine(uuid, o),
                   <<"Press any key to return...", "">>>>]

\* open_terminal_session up to its event::read(): where control is next,
\* the request sent and the lines on the cleared screen.
open_terminal_session(token, uuid, o) ==
    IF token = NoToken
    THEN [pc |-> "draw", launch |-> NoLaunch, printed |-> <<>>]
    ELSE [pc |-> "ack",
          launch |-> LaunchRecord(uuid, o),
          printed |-> <<<<"Connecting to ", uuid>>, ResultLine(uuid, o),
                        <<"Press any key to return...", "">>>>]

-----------------------------------------------------------------------------
(* App::handle_events *)

Events == {"Down", "Up", "Enter", "Slash", "Quit", "Other"}

\* Down or 'j'.
handle_down ==
    /\ pc = "event"
    /\ key' = "Down"
    /\ selected_index' = MoveDown(selected_index, Len(servers))
    /\ pc' = "draw"
    /\ UNCHANGED <<env_key, dotenv_key, ui_init, frame, servers, resources,
                   viewing_resources, current_server, exit, session_token,
                   connection_ids, infos, folded, fzf, launch, printed>>

\* Up or 'k'.
handle_up ==
    /\ pc = "event"
    /\ key' = "Up"
    /\ selected_index' = MoveUp(selected_index)
    /\ pc' = "draw"
    /\ UNCHANGED <<env_key, dotenv_key, ui_init, frame, servers, resources,
                   viewing_resources, current_server, exit, session_token,
                   connection_ids, infos, folded, fzf, launch, printed>>

\* Enter: self.servers[self.selected_index] is out of bounds and panics.
handle_enter_panic ==
    /\ pc = "event"
    /\ selected_index >= Len(servers)
    /\ key' = "Enter"
    /\ pc' = "panic"
    /\ printed' = <<<<"panic", "index out of bounds">>>>
    /\ UNCHANGED <<env_key, dotenv_key, ui_init, frame, app, connection_ids,
                   infos, folded, fzf, launch>>

handle_enter_drill_down ==
    /\ pc = "event"
    /\ selected_index < Len(servers)
    /\ key' = "Enter"
    /\ viewing_resources' = TRUE
    /\ selected_index' = 0
    /\ pc' = "draw"
    /\ UNCHANGED <<env_key, dotenv_key, ui_init, frame, servers, resources,
                   current_server, exit, session_token, connection_ids, infos,
                   folded, fzf, launch, printed>>

\* Enter: open a session for the first identifier of the selected server.
handle_enter ==
    /\ pc = "event"
    /\ selected_index < Len(servers)
    /\ key' = "Enter"
    /\ LET selected_server == servers[selected_index + 1]
       IN  IF selected_server \in DOMAIN resources
           THEN IF resources[selected_server] # <<>>
                THEN \E o \in LaunchOutcomes :
                        LET r == open_terminal_session(
                                    session_token,
                                    resources[selected_server][1], o)
                        IN  /\ pc' = r.pc
                            /\ launch' = r.launch
                            /\ printed' = r.printed
                ELSE /\ pc' = "draw"
                     /\ UNCHANGED <<launch, printed>>
           ELSE /\ pc' = "draw"
                /\ printed' = <<<<"No connection ID found for the selected server.", "">>>>
                /\ UNCHANGED launch
    /\ UNCHANGED <<env_key, dotenv_key, ui_init, frame, app, connection_ids,
                   infos, folded, fzf>>

handle_quit_logout ==
    /\ pc = "event"
    /\ key' = "Quit"
    /\ exit' = TRUE
    /\ session_token' = NoToken
    /\ pc' = "draw"
    /\ UNCHANGED <<env_key, dotenv_key, ui_init, frame, servers, resources,
                   selected_index, viewing_resources, current_server,
                   connection_ids, infos, folded, fzf, launch, printed>>

\* 'q'.
handle_quit ==
    /\ pc = "event"
    /\ key' = "Quit"
    /\ exit' = TRUE
    /\ pc' = "draw"
    /\ UNCHANGED <<env_key, dotenv_key, ui_init, frame, servers, resources,
                   selected_index, viewing_resources, current_server,
                   session_token, connection_ids, infos, folded, fzf, launch,
                   printed>>

\* Any other event: `_ => {}`.
handle_other ==
    /\ pc = "event"
    /\ key' = "Other"
    /\ pc' = "draw"
    /\ UNCHANGED <<env_key, dotenv_key, ui_init, frame, app, connection_ids,
                   infos, folded, fzf, launch, printed>>

\* open_terminal_session: `let _ = event::read();` returns, then the caller.
acknowledge ==
    /\ pc = "ack"
    /\ \E e \in Events : TRUE
    /\ launch' = NoLaunch
    /\ pc' = "draw"
    /\ UNCHANGED <<env_key, dotenv_key, ui_init, frame, app, connection_ids,
                   infos, folded, key, fzf, printed>>

-----------------------------------------------------------------------------
(* App::fzf_search, entered on '/' *)

\* self.servers.join("\n")
RECURSIVE Join(_)
Join(names) ==
    IF names = <<>> THEN <<>>
    ELSE IF Len(names) = 1 THEN names[1]
    ELSE names[1] \o <<10>> \o Join(Tail(names))

\* What the matcher may write to its stdout: nothing, a line, or bad UTF-8.
FzfOutputs == {<<>>, <<255>>} \cup {n \o <<10>> : n \in NameSet}

fzf_select_any_status(status, out, res) ==
    IF Utf8Valid(out) /\ Trim(out) \in DOMAIN res /\ res[Trim(out)] # <<>>
    THEN [open |-> TRUE, id |-> res[Trim(out)][1], msg |-> ""]
    ELSE [open |-> FALSE, id |-> "", msg |-> ""]

\* The part of fzf_search after wait_with_output: the identifier to open, or
\* the message printed.
fzf_select(status, out, res) ==
    IF status = "success"
    THEN IF Utf8Valid(out)
         THEN LET selected == Trim(out)
              IN  IF selected \in DOMAIN res
                  THEN IF res[selected] # <<>>
                       THEN [open |-> TRUE, id |-> res[selected][1], msg |-> ""]
                       ELSE [open |-> FALSE, id |-> "",
                             msg |-> "No connection ID found for the selected server."]
                  ELSE [open |-> FALSE, id |-> "",
                        msg |-> "Selected server not found in resources."]
         ELSE [open |-> FALSE, id |-> "", msg |-> ""]
    ELSE [open |-> FALSE, id |-> "",
          msg |-> "No selection made or fzf process failed."]

\* Command::new("fzf")...spawn().expect(..) panics.
fzf_spawn_fail ==
    /\ pc = "event"
    /\ key' = "Slash"
    /\ fzf' = [child |-> "none", status |-> "spawn failed", stdout |-> <<>>]
    /\ pc' = "panic"
    /\ printed' = <<<<"panic", "Failed to spawn fzf process">>>>
    /\ UNCHANGED <<env_key, dotenv_key, ui_init, frame, app, connection_ids,
                   infos, folded, launch>>

\* stdin.write_all fails: fzf_search returns without waiting for the child.
fzf_write_fail ==
    /\ pc = "event"
    /\ key' = "Slash"
    /\ fzf' = [child |-> "running", status |-> "write failed", stdout |-> <<>>]
    /\ pc' = "draw"
    /\ printed' = <<<<"Failed to write to fzf stdin: ", "broken pipe">>>>
    /\ UNCHANGED <<env_key, dotenv_key, ui_init, frame, app, connection_ids,
                   infos, folded, launch>>

\* child.wait_with_output().expect(..) panics.
fzf_wait_fail ==
    /\ pc = "event"
    /\ key' = "Slash"
    /\ fzf' = [child |-> "running", status |-> "wait failed", stdout |-> <<>>]
    /\ pc' = "panic"
    /\ printed' = <<<<"panic", "Failed to read fzf output">>>>
    /\ UNCHANGED <<env_key, dotenv_key, ui_init, frame, app, connection_ids,
                   infos, folded, launch>>

\* The matcher terminates with a status and an output.
fzf_exit ==
    /\ pc = "event"
    /\ key' = "Slash"
    /\ \E status \in {"success", "failed"}, out \in FzfOutputs :
          /\ fzf' = [child |-> "reaped", status |-> status, stdout |-> out]
          /\ LET sel == fzf_select(status, out, resources)
             IN  IF sel.open
                 THEN \E o \in LaunchOutcomes :
                         LET r == open_terminal_session(session_token, sel.id, o)
                         IN  /\ pc' = r.pc
                             /\ launch' = r.launch
                             /\ printed' = r.printed
                 ELSE /\ pc' = "draw"
                      /\ printed' = (IF sel.msg = "" THEN <<>>
                                     ELSE <<<<sel.msg, "">>>>)
                      /\ UNCHANGED launch
    /\ UNCHANGED <<env_key, dotenv_key, ui_init, frame, app, connection_ids,
                   infos, folded>>

-----------------------------------------------------------------------------
Next ==
    \/ main
    \/ handshake_panic
    \/ handshake_ok
    \/ handshake_err
    \/ fetch_query
    \/ query_err
    \/ info_ok
    \/ info_err
    \/ fold_step
    \/ fetch_finish
    \/ run_draw
    \/ run_exit
    \/ handle_down
    \/ handle_up
    \/ handle_enter_panic
    \/ handle_enter
    \/ handle_quit
    \/ handle_other
    \/ acknowledge
    \/ fzf_spawn_fail
    \/ fzf_write_fail
    \/ fzf_wait_fail
    \/ fzf_exit

Spec == Init /\ [][Next]_vars

-----------------------------------------------------------------------------
(* fetch_connections and handle_events called on an App given by its fields *)

\* Catalogues as fetch_connections leaves them: none, one name with two
\* identifiers, two names with one identifier each.
Catalogues ==
    {[servers |-> <<>>, resources |-> <<>>],
     [servers |-> <<<<97>>>>,
      resources |-> ResourcesPush(ResourcesPush(<<>>, <<97>>, "a1"),
                                  <<97>>, "a2")],
     [servers |-> <<<<97>>, <<98>>>>,
      resources |-> ResourcesPush(ResourcesPush(<<>>, <<97>>, "a1"),
                                  <<98>>, "a2")]}

\* An App with or without a token, at the entry of handle_events after a
\* draw, or without a token at the entry of fetch_connections.
InitCalls ==
    /\ pc \in {"query", "event"}
    /\ session_token \in {NoToken} \cup Tokens
    /\ pc = "query" => session_token = NoToken
    /\ \E c \in Catalogues :
          /\ servers = c.servers
          /\ resources = c.resources
    /\ selected_index \in 0..MoveDown(0, Len(servers))
    /\ frame = (IF pc = "event" THEN draw(servers, selected_index) ELSE NoFrame)
    /\ env_key = TRUE
    /\ dotenv_key = FALSE
    /\ ui_init = TRUE
    /\ viewing_resources = FALSE
    /\ current_server = ""
    /\ exit = FALSE
    /\ connection_ids = <<>>
    /\ infos = <<>>
    /\ folded = 0
    /\ key = "none"
    /\ fzf = NoFzf
    /\ launch = NoLaunch
    /\ printed = <<>>

NextCalls ==
    \/ fetch_query
    \/ run_draw
    \/ run_exit
    \/ handle_down
    \/ handle_up
    \/ handle_enter_panic
    \/ handle_enter
    \/ handle_quit
    \/ handle_other
    \/ acknowledge
    \/ fzf_spawn_fail
    \/ fzf_write_fail
    \/ fzf_wait_fail
    \/ fzf_exit

SpecCalls == InitCalls /\ [][NextCalls]_vars

-----------------------------------------------------------------------------
(* Properties *)

\* The identifiers of ids at the positions in pos, from position i on.
RECURSIVE IdsAt(_, _, _)
IdsAt(ids, pos, i) ==
    IF i > Len(ids) THEN <<>>
    ELSE (IF i \in pos THEN <<ids[i]>> ELSE <<>>) \o IdsAt(ids, pos, i + 1)

IsPrefix(s, t) == Len(s) <= Len(t) /\ SubSeq(t, 1, Len(s)) = s

Occurrences(s, x) == Cardinality({j \in 1..Len(s) : s[j] = x})

\* C1: with an empty catalogue, handling Up, Down or Enter changes no field
\* of the application and does not panic.
C1_EmptyCatalogueKeysNoOp ==
    [][(pc = "event" /\ servers = <<>> /\ key' \in {"Up", "Down", "Enter"})
          => (pc' # "panic" /\ UNCHANGED app)]_vars

\* C2: in a view of n >= 1 servers with the cursor i in 0..n-1, Down gives
\* i+1, or n-1 at the end; Up gives i-1, or 0 at the start.
C2_MoveClampsAtEnds ==
    [][(pc = "event" /\ Len(servers) >= 1
            /\ selected_index \in 0..(Len(servers) - 1))
          => /\ key' = "Down" =>
                  selected_index' = (IF selected_index = Len(servers) - 1
                                     THEN Len(servers) - 1
                                     ELSE selected_index + 1)
             /\ key' = "Up" =>
                  selected_index' = (IF selected_index = 0
                                     THEN 0
                                     ELSE selected_index - 1)]_vars

\* Down was handled with the cursor already on the last of several servers.
C2_Witness ==
    /\ pc = "draw"
    /\ key = "Down"
    /\ Len(servers) >= 2
    /\ frame.items[Len(servers)].highlighted
    /\ selected_index = Len(servers) - 1

\* C3: the cursor is 0 when the server list is empty and otherwise an index
\* of the list.
C3_CursorInBounds ==
    IF servers = <<>>
    THEN selected_index = 0
    ELSE selected_index \in 0..(Len(servers) - 1)

\* The render loop holds several servers and the cursor has moved off 0.
C3_Witness ==
    /\ pc = "event"
    /\ Len(servers) >= 2
    /\ selected_index >= 1

\* C4: when fetch_connections finishes, every name the info step gave to
\* one or more identifiers is in servers exactly once, and its resources
\* entry is those identifiers in the order of the query step.
C4_DuplicateNamesFolded ==
    [][(pc = "fold" /\ pc' = "draw")
          => \A name \in NameSet :
                LET n == Min(Len(infos), Len(connection_ids))
                    pos == {i \in 1..n : infos[i] # <<>> /\ infos[i][1] = name}
                IN  pos # {} =>
                       /\ Occurrences(servers', name) = 1
                       /\ name \in DOMAIN resources'
                       /\ resources'[name] = IdsAt(connection_ids, pos, 1)]_vars

\* A fetched catalogue in which one name stands for two different identifiers.
C4_Witness ==
    /\ pc = "draw"
    /\ \E name \in DOMAIN resources :
          /\ Len(resources[name]) >= 2
          /\ resources[name][1] # resources[name][2]
          /\ Occurrences(servers, name) = 1

\* C5: after every step each name in servers has a non-empty resources
\* entry, and every resources entry is kept with its identifiers as a prefix.
C5_MappingAppendOnly ==
    [][/\ \A i \in 1..Len(servers') :
             /\ servers'[i] \in DOMAIN resources'
             /\ resources'[servers'[i]] # <<>>
       /\ \A name \in DOMAIN resources :
             /\ name \in DOMAIN resources'
             /\ IsPrefix(resources[name], resources'[name])]_vars

\* The fold has consumed several pairs and appended to an existing entry.
C5_Witness ==
    /\ pc = "fold"
    /\ folded >= 2
    /\ \E name \in DOMAIN resources : Len(resources[name]) >= 2

\* C6: a step that sends a launch request ends waiting in event::read(), and
\* from a sent request the only step is that read returning to the render
\* loop, with no frame drawn in between.
C6_LaunchWaitsForKey ==
    [][/\ (launch = NoLaunch /\ launch' # NoLaunch) => pc' = "ack"
       /\ launch # NoLaunch =>
             /\ pc = "ack"
             /\ pc' = "draw"
             /\ launch' = NoLaunch
             /\ frame' = frame]_vars

\* A launch request failed in transport and the program waits for a key.
C6_Witness ==
    /\ pc = "ack"
    /\ launch.kind = "transport"

\* C7 as stated: after a launch that failed or got a non-success status the
\* response body is on the screen and the application keeps running.
C7_ResponseBodySurfaced ==
    (pc = "ack" /\ launch.kind \in {"status", "unreadable", "transport"})
       => /\ \E i \in 1..Len(printed) :
                printed[i] = <<"Error opening terminal session:\n", launch.body>>
          /\ ~exit

\* C7 as amended: after a non-success status the body read from the response
\* is on the screen, or "Unknown error" when it could not be read; after a
\* failed send the request error is; in each case the key press returns to
\* the render loop with exit unset and servers, resources and selected_index
\* as they were before the launch.
C7_FailureSurfacedAndRunning ==
    [][/\ (pc = "event" /\ pc' = "ack") =>
             UNCHANGED <<servers, resources, selected_index, exit>>
       /\ (pc = "ack" /\ launch.kind \in {"status", "unreadable", "transport"}) =>
             /\ \E i \in 1..Len(printed) :
                   printed[i] =
                      (IF launch.kind = "status"
                       THEN <<"Error opening terminal session:\n", launch.body>>
                       ELSE IF launch.kind = "unreadable"
                       THEN <<"Error opening terminal session:\n", "Unknown error">>
                       ELSE <<"Request failed: ", launch.err>>)
             /\ ~exit
             /\ ~exit'
             /\ pc' = "draw"
             /\ UNCHANGED <<servers, resources, selected_index>>]_vars

\* The launch got a non-success status with the body "connection refused".
C7_Witness ==
    /\ pc = "ack"
    /\ launch.kind = "status"
    /\ launch.body = "connection refused"

\* C8: a matcher run that is not a success with non-empty trimmed output
\* returns to the render loop with the application unchanged and no launch.
C8_MatcherFailureIsNoMatch ==
    [][(pc = "event" /\ key' = "Slash"
            /\ ~(fzf'.status = "success" /\ Trim(fzf'.stdout) # <<>>))
          => (pc' = "draw" /\ UNCHANGED app /\ launch' = NoLaunch)]_vars

C10_MissingKeyFailsBeforeUi ==
    (~env_key /\ ~dotenv_key)
       => /\ pc \in {"main", "handshake", "panic"}
          /\ pc = "panic" => (~ui_init /\ ~frame.drawn)

\* C11: a handshake that yields no token, for whatever cause, does not
\* crash: the render loop starts with an empty catalogue and no credential,
\* and no fetch request is made.
C11_AuthFailureDegrades ==
    [][(pc = "handshake" /\ session_token' = NoToken)
          => /\ pc' = "draw"
             /\ servers' = <<>>
             /\ resources' = <<>>
             /\ connection_ids' = <<>>
             /\ infos' = <<>>]_vars

\* C12: handling the Quit key sets exit; with exit set the only step is
\* run returning, with no frame drawn and no event handled; and run returns
\* only with exit set.
C12_QuitStopsLoop ==
    [][/\ (pc = "event" /\ key' = "Quit") => exit'
       /\ exit => (pc' = "done" /\ frame' = frame /\ key' = key)
       /\ pc' = "done" => exit]_vars

\* The loop has ended after Quit was pressed with the cursor off 0.
C12_Witness ==
    /\ pc = "done"
    /\ key = "Quit"
    /\ exit
    /\ selected_index >= 1

\* C13: a query or info request is only made with the token of a completed
\* handshake, and an input event is only handled when no handshake or fetch
\* is under way: the responses of the fetch have been folded and dropped.
C13_StartupOrder ==
    [][/\ (pc \in {"query", "info"} /\ pc' \in {"info", "fold"})
             => session_token \in Tokens
       /\ (pc' \in {"info", "fold"} \/ connection_ids' # <<>> \/ infos' # <<>>)
             => (session_token' \in Tokens /\ key' = "none")
       /\ key' # key
             => (pc \in {"draw", "event"} /\ connection_ids = <<>>
                    /\ infos = <<>> /\ folded = 0)]_vars

\* Down was handled after a fetch that filled the catalogue.
C13_Witness ==
    /\ pc = "draw"
    /\ key = "Down"
    /\ session_token \in Tokens
    /\ Len(servers) >= 2

\* C14: when the query step or the info step fails (send or json),
\* fetch_connections returns the error with servers and resources as they
\* were before the call, which on the first run is empty.
C14_FetchErrorKeepsCatalogue ==
    [][(pc \in {"query", "info"} /\ pc' = "draw" /\ session_token # NoToken)
          => /\ UNCHANGED <<servers, resources>>
             /\ servers' = <<>>
             /\ resources' = <<>>
             /\ \E e \in {"send", "json"} :
                   printed' = <<<<"Error fetching connections: ", e>>>>]_vars

\* A step of the fetch failed on its payload and the loop starts empty.
C14_Witness ==
    /\ pc = "draw"
    /\ session_token \in Tokens
    /\ servers = <<>>
    /\ printed = <<<<"Error fetching connections: ", "json">>>>

\* The display names of an info response: the first name of each entry
\* that has one.
DisplayNames(is) == {is[i][1] : i \in {j \in 1..Len(is) : is[j] # <<>>}}

\* C15: when a fetch succeeds, with no more info entries than identifiers
\* requested, servers holds as many names as the info step returned unique
\* display names, and every frame drawn lists one item per name in servers.
C15_ViewCountsUniqueNames ==
    [][/\ (pc = "fold" /\ pc' = "draw" /\ Len(infos) <= Len(connection_ids))
             => Len(servers') = Cardinality(DisplayNames(infos))
       /\ frame'.drawn =>
             /\ Len(frame'.items) = Len(servers')
             /\ \A i \in 1..Len(servers') :
                   frame'.items[i].text = servers'[i]]_vars

\* A frame of two items drawn from a fetch of three identifiers.
C15_Witness ==
    /\ pc = "event"
    /\ session_token \in Tokens
    /\ Len(frame.items) = 2
    /\ \E name \in DOMAIN resources : Len(resources[name]) = 2

\* C16: whenever fzf_search has returned to the render loop, the matcher
\* process it spawned has been waited for.
C16_MatcherAwaited ==
    (pc = "draw" /\ key = "Slash") => fzf.child = "reaped"

\* C17: without a token, fetch_connections returns at once and a launch by
\* Enter or by a matcher result returns at once: no query, info or terminal
\* request is sent, no field of the application changes, and the program
\* does not wait for a key press.
C17_NoTokenNoOp ==
    [][session_token = NoToken
          => /\ pc = "query" =>
                   /\ pc' = "draw"
                   /\ UNCHANGED <<app, connection_ids, infos, folded, launch,
                                  printed>>
             /\ launch' = NoLaunch
             /\ pc' \notin {"info", "fold", "ack"}
             /\ (pc = "event" /\ key' \in {"Enter", "Slash"} /\ pc' # "panic")
                   => (pc' = "draw" /\ UNCHANGED app)
             /\ (pc = "event" /\ key' = "Enter" /\ pc' # "panic")
                   => UNCHANGED printed]_vars

\* Enter was handled on a listed server while no token was held.
C17_Witness ==
    /\ session_token = NoToken
    /\ pc = "draw"
    /\ key = "Enter"
    /\ servers # <<>>

\* The line the matcher printed: its output without the final newline.
ChosenLine(out) ==
    IF out # <<>> /\ out[Len(out)] = 10
    THEN SubSeq(out, 1, Len(out) - 1)
    ELSE out

\* C18: a step that sends a launch request leaves the cursor alone and
\* submits the first identifier of the chosen name's resources entry: the
\* name at the cursor for Enter, the listed name the matcher printed for
\* the filter.
C18_LaunchesPrimaryIdentifier ==
    [][(launch = NoLaunch /\ launch' # NoLaunch)
          => /\ UNCHANGED selected_index
             /\ key' = "Enter" =>
                   launch'.connection =
                      resources[servers[selected_index + 1]][1]
             /\ (key' = "Slash" /\ ChosenLine(fzf'.stdout) \in Range(servers))
                   => launch'.connection =
                         resources[ChosenLine(fzf'.stdout)][1]]_vars

\* C19: from the first draw on, no step changes servers, resources or
\* session_token.
C19_LoopKeepsCatalogueAndToken ==
    [][(pc \in {"draw", "event", "ack"})
          => UNCHANGED <<servers, resources, session_token>>]_vars

\* A session was launched from the filter and acknowledged.
C19_Witness ==
    /\ pc = "draw"
    /\ key = "Slash"
    /\ fzf.status = "success"
    /\ launch = NoLaunch
    /\ printed # <<>>
    /\ printed[1][1] = "Connecting to "

\* C20: viewing_resources is never set and current_server is never
\* assigned.
C20_NeverDrillsDown ==
    /\ viewing_resources = FALSE
    /\ current_server = ""

\* Enter was handled on a server that has several identifiers.
C20_Witness ==
    /\ pc = "ack"
    /\ key = "Enter"
    /\ Len(resources[servers[selected_index + 1]]) >= 2
====
